---- MODULE Spec2Model ----
\* Model of the integration-testing demo: the mock external service and the
\* main program of src/src/main.go, and the scenario runner and category tests
\* of src/tests/integration_test.go.
EXTENDS Integers, Sequences, FiniteSets, TLC

VARIABLES
    svc,        \* service instances: id -> [name, responseTime, failureRate, data]
    clock,      \* nanoseconds slept since the process started
    last,       \* the most recent service call and its result
    prev,       \* the service call before it
    putOK,      \* id -> keys a PutData on that instance has stored
    nOps,       \* number of service calls made by the free client
    fired,      \* whether the draw of the most recent service call fell below the rate
    stored,     \* id -> key -> value of the latest PutData that returned nil
    rng,        \* main: the next draws of the process-global random source
    startOff,   \* main: milliseconds into the wall-clock second at process start
    env,        \* main: the environment variables read by LoadServiceConfig
    mpc,        \* main: the statement main is at
    mi,         \* main: index of the configuration / service of the current loop
    out,        \* main: the lines printed so far
    attempts,   \* main: service index -> Connect calls made on it
    retries,    \* main: service index -> retry notices printed for it
    outlook,    \* main: service index -> the draws ahead when its test began
    calls,      \* main: the service calls made so far: service index, operation, error
    locals,     \* main: testKey, testValue, retrieved, keys of the current iteration
    flags,      \* tests: runStorageTests, runDBTests, runAPITests, simulateFailure, verbose
    flags0,     \* tests: the flags as given on the command line
    mock,       \* tests: the MockIntegrationTest being run
    rpc,        \* tests: where Run is: "none", "ready", "running", "passed", "failed"
    step,       \* tests: index i of Run's loop over the operations
    tlog,       \* tests: Logf / Errorf calls on the current test's t
    slept,      \* tests: nanoseconds Run has slept
    below,      \* tests: per failure draw of the run, whether it fell below the rate
    tfn,        \* tests: index of the top-level test function being run
    sub,        \* tests: index of the subtest being run, 0 outside the loop
    suiteLog,   \* tests: Log calls of the top-level test functions
    results     \* tests: outcome of each test and subtest, in completion order

svcVars == <<svc, clock, last, prev, putOK, nOps, fired, stored>>

mainVars == <<rng, startOff, env, mpc, mi, out, attempts, retries, outlook, calls, locals>>

runVars == <<mock, rpc, step, tlog, slept, below>>

testVars == <<flags, flags0, mock, rpc, step, tlog, slept, below, tfn, sub, suiteLog, results>>

vars == <<svc, clock, last, prev, putOK, nOps, fired, stored,
          rng, startOff, env, mpc, mi, out, attempts, retries, outlook, calls, locals,
          flags, flags0, mock, rpc, step, tlog, slept, below, tfn, sub, suiteLog, results>>

----------------------------------------------------------------------------
\* Bounds of the model.

MaxOps == 3         \* service calls made by the free client
MaxKeys == 2        \* distinct keys the free client uses
MaxFailedRuns == 2  \* scenario runs of one test process that draw a failure

----------------------------------------------------------------------------
\* Probabilities.  A float32 probability p is the integer p * RateScale; a
\* draw of rand.Float32(), which lies in [0, 1), is an integer in
\* 0 .. RateScale - 1.

RateScale == 1000

\* time.Millisecond: durations are nanoseconds.
Millisecond == 1000000

\* LoadServiceConfig: name, the environment variable giving the type label,
\* response time, failure rate.
LoadServiceConfig ==
    << [Name |-> "S3-like Storage", TypeVar |-> "STORAGE_TYPE",
        ResponseTime |-> 100 * Millisecond, FailureRate |-> 10],
       [Name |-> "Database", TypeVar |-> "DB_TYPE",
        ResponseTime |-> 50 * Millisecond, FailureRate |-> 20],
       [Name |-> "External API", TypeVar |-> "API_TYPE",
        ResponseTime |-> 200 * Millisecond, FailureRate |-> 50] >>

\* The failure rates main configures (0.01, 0.02, 0.05).
ConfigRates == {LoadServiceConfig[i].FailureRate : i \in 1 .. Len(LoadServiceConfig)}

\* Failure rates a service or a scenario is constructed with: never failing,
\* the configured ones, always failing.
RateSet == {0, RateScale} \cup ConfigRates

\* Sampled draws: the ends of [0, 1) and both sides of every configured rate.
DrawSet == {0, RateScale - 1} \cup ConfigRates \cup {r - 1 : r \in ConfigRates}

----------------------------------------------------------------------------
\* MockService (src/src/main.go)

Nil == "<nil>"

EmptyMap == [k \in {} |-> ""]

NewMockService(name, responseTime, failureRate) ==
    [name |-> name, responseTime |-> responseTime,
     failureRate |-> failureRate, data |-> EmptyMap]

\* Variants of shouldFail with the comparison off by one, either way.
shouldFail_inclusive(m, d) == d <= m.failureRate
shouldFail_short(m, d) == d + 1 < m.failureRate

\* shouldFail: rand.Float32() < m.failureRate, d being the draw.
shouldFail(m, d) == d < m.failureRate

\* The result of a call: op, instance, arguments, returned error, returned
\* value (GetData) and returned keys (ListKeys).
Call(op, s, key, value, err, val, keys) ==
    [op |-> op, s |-> s, key |-> key, value |-> value,
     err |-> err, val |-> val, keys |-> keys]

NoCall == Call("none", 0, "", "", Nil, "", <<>>)

\* All orders in which a range over a map of keys ks can visit them.
RECURSIVE Orders(_)
Orders(ks) ==
    IF ks = {} THEN {<<>>}
    ELSE UNION {{<<k>> \o rest : rest \in Orders(ks \ {k})} : k \in ks}

MapPut(data, key, value) ==
    [k \in DOMAIN data \cup {key} |-> IF k = key THEN value ELSE data[k]]

\* Variant of Connect that keeps failing once a call on the instance failed.
ConnectResult_sticky(s, d) ==
    IF shouldFail(svc[s], d) \/ (last.s = s /\ last.err # Nil)
    THEN Call("Connect", s, "", "", "failed to connect to " \o svc[s].name, "", <<>>)
    ELSE Call("Connect", s, "", "", Nil, "", <<>>)

\* Connect: the result for draw d.
ConnectResult(s, d) ==
    IF shouldFail(svc[s], d)
    THEN Call("Connect", s, "", "", "failed to connect to " \o svc[s].name, "", <<>>)
    ELSE Call("Connect", s, "", "", Nil, "", <<>>)

PingResult(s, d) ==
    IF shouldFail(svc[s], d)
    THEN Call("Ping", s, "", "", svc[s].name \o " is not responding", "", <<>>)
    ELSE Call("Ping", s, "", "", Nil, "", <<>>)

\* Variants of GetData: the key looked up ahead of the draw, and the zero
\* value returned for an absent key.
GetDataResult_keyFirst(s, key, d) ==
    IF key \notin DOMAIN svc[s].data
    THEN Call("GetData", s, key, "", "key " \o key \o " not found", "", <<>>)
    ELSE IF shouldFail(svc[s], d)
    THEN Call("GetData", s, key, "", "failed to get data from " \o svc[s].name, "", <<>>)
    ELSE Call("GetData", s, key, "", Nil, svc[s].data[key], <<>>)

GetDataResult_zeroValue(s, key, d) ==
    IF shouldFail(svc[s], d)
    THEN Call("GetData", s, key, "", "failed to get data from " \o svc[s].name, "", <<>>)
    ELSE IF key \in DOMAIN svc[s].data
    THEN Call("GetData", s, key, "", Nil, svc[s].data[key], <<>>)
    ELSE Call("GetData", s, key, "", Nil, "", <<>>)

\* GetData: the result for draw d.
GetDataResult(s, key, d) ==
    IF shouldFail(svc[s], d)
    THEN Call("GetData", s, key, "", "failed to get data from " \o svc[s].name, "", <<>>)
    ELSE IF key \in DOMAIN svc[s].data
    THEN Call("GetData", s, key, "", Nil, svc[s].data[key], <<>>)
    ELSE Call("GetData", s, key, "", "key " \o key \o " not found", "", <<>>)

PutDataResult(s, key, value, d) ==
    IF shouldFail(svc[s], d)
    THEN Call("PutData", s, key, value, "failed to put data to " \o svc[s].name, "", <<>>)
    ELSE Call("PutData", s, key, value, Nil, "", <<>>)

\* Variant of PutData that stores the value only under a key not yet present.
PutDataStore_noOverwrite(s, key, value, d) ==
    IF shouldFail(svc[s], d) \/ key \in DOMAIN svc[s].data THEN svc[s].data
    ELSE [k \in DOMAIN svc[s].data \cup {key} |-> IF k = key THEN value ELSE svc[s].data[k]]

\* Variant of PutData that writes the entry ahead of the failure test.
PutDataStore_writeFirst(s, key, value, d) == MapPut(svc[s].data, key, value)

\* Variant of PutData that stores the key in place of the value.
PutDataStore_keyAsValue(s, key, value, d) ==
    IF shouldFail(svc[s], d) THEN svc[s].data
    ELSE MapPut(svc[s].data, key, key)

\* The store after PutData with draw d.
PutDataStore(s, key, value, d) ==
    IF shouldFail(svc[s], d) THEN svc[s].data
    ELSE MapPut(svc[s].data, key, value)

\* Variant of ListKeys whose slice is made with length, not capacity, len(m.data).
ListKeysResults_padded(s, d) ==
    IF shouldFail(svc[s], d)
    THEN {Call("ListKeys", s, "", "", "failed to list keys from " \o svc[s].name, "", <<>>)}
    ELSE {Call("ListKeys", s, "", "", Nil, "", [i \in 1 .. Len(ks) |-> ""] \o ks) :
             ks \in Orders(DOMAIN svc[s].data)}

\* ListKeys: the possible results for draw d (map iteration order is not fixed).
ListKeysResults(s, d) ==
    IF shouldFail(svc[s], d)
    THEN {Call("ListKeys", s, "", "", "failed to list keys from " \o svc[s].name, "", <<>>)}
    ELSE {Call("ListKeys", s, "", "", Nil, "", ks) : ks \in Orders(DOMAIN svc[s].data)}

\* time.Sleep of each operation.
SleepOf(op, s) ==
    IF op = "Ping" THEN svc[s].responseTime \div 2 ELSE svc[s].responseTime

----------------------------------------------------------------------------
\* Keys and values (main: testKey, testValue)

StartSec == 1700000000

TestKey(unix) == "test-key-" \o ToString(unix)
TestValue(name) == "test-value-" \o name

KeySet == {TestKey(StartSec + i) : i \in 0 .. MaxKeys - 1}
ValueSet == {TestValue(LoadServiceConfig[i].Name) : i \in 1 .. 2}

----------------------------------------------------------------------------
\* A client that constructs one service and calls its operations in any order.

Inst == {1}

NoLocals == [testKey |-> "", testValue |-> "", retrieved |-> "", keys |-> <<>>]

\* The main program is not running.
MainIdle ==
    /\ rng = <<>>
    /\ startOff = 0
    /\ env = <<>>
    /\ mpc = "idle"
    /\ mi = 0
    /\ out = <<>>
    /\ attempts = <<>>
    /\ retries = <<>>
    /\ outlook = <<>>
    /\ calls = <<>>
    /\ locals = NoLocals

NoFlags == [runStorageTests |-> FALSE, runDBTests |-> FALSE, runAPITests |-> FALSE,
            simulateFailure |-> FALSE, verbose |-> FALSE]

NoMock == [name |-> "", duration |-> 0, failureRate |-> 0, operations |-> <<>>]

\* No test process is running.
TestIdle ==
    /\ flags = NoFlags
    /\ flags0 = NoFlags
    /\ mock = NoMock
    /\ rpc = "none"
    /\ step = 0
    /\ tlog = <<>>
    /\ slept = 0
    /\ below = <<>>
    /\ tfn = 0
    /\ sub = 0
    /\ suiteLog = <<>>
    /\ results = <<>>

SvcInit ==
    /\ MainIdle
    /\ TestIdle
    /\ \E i \in 1 .. Len(LoadServiceConfig), rate \in RateSet :
         svc = [s \in Inst |-> NewMockService(LoadServiceConfig[i].Name,
                                              LoadServiceConfig[i].ResponseTime, rate)]
    /\ clock = 0
    /\ last = NoCall
    /\ prev = NoCall
    /\ putOK = [s \in Inst |-> {}]
    /\ fired = FALSE
    /\ stored = [s \in Inst |-> EmptyMap]
    /\ nOps = 0

\* A call returned r after sleeping, d being its draw.
Record(r, d) ==
    /\ clock' = clock + SleepOf(r.op, r.s)
    /\ prev' = last
    /\ last' = r
    /\ calls' = IF mpc = "idle" THEN calls
                ELSE Append(calls, [s |-> r.s, op |-> r.op, err |-> r.err])
    /\ fired' = (d < svc[r.s].failureRate)
    /\ stored' = IF r.op = "PutData" /\ r.err = Nil
                 THEN [stored EXCEPT ![r.s] = MapPut(@, r.key, r.value)]
                 ELSE stored

\* Bookkeeping shared by the calls of the free client.
Returned(r, d) ==
    /\ nOps < MaxOps
    /\ nOps' = nOps + 1
    /\ Record(r, d)
    /\ UNCHANGED <<mainVars, testVars>>

Connect(s) ==
    \E d \in DrawSet :
        /\ Returned(ConnectResult(s, d), d)
        /\ UNCHANGED <<svc, putOK>>

Ping(s) ==
    \E d \in DrawSet :
        /\ Returned(PingResult(s, d), d)
        /\ UNCHANGED <<svc, putOK>>

\* Variant of GetData that removes the entry it returns.
GetData_consuming(s) ==
    \E key \in KeySet, d \in DrawSet :
        /\ Returned(GetDataResult(s, key, d), d)
        /\ svc' = [svc EXCEPT ![s].data =
                      IF GetDataResult(s, key, d).err = Nil
                      THEN [k \in DOMAIN @ \ {key} |-> @[k]] ELSE @]
        /\ UNCHANGED putOK

\* Variant of GetData that leaves an empty entry behind for an absent key.
GetData_inserting(s) ==
    \E key \in KeySet, d \in DrawSet :
        /\ Returned(GetDataResult(s, key, d), d)
        /\ svc' = [svc EXCEPT ![s].data =
                      IF key \in DOMAIN @ THEN @ ELSE MapPut(@, key, "")]
        /\ UNCHANGED putOK

GetData(s) ==
    \E key \in KeySet, d \in DrawSet :
        /\ Returned(GetDataResult(s, key, d), d)
        /\ UNCHANGED <<svc, putOK>>

\* Variant of PutData whose map is shared by all instances.
PutData_shared(s) ==
    \E key \in KeySet, value \in ValueSet, d \in DrawSet :
        /\ Returned(PutDataResult(s, key, value, d), d)
        /\ svc' = [t \in DOMAIN svc |->
                      [svc[t] EXCEPT !.data =
                          IF shouldFail(svc[s], d) THEN @ ELSE MapPut(@, key, value)]]
        /\ putOK' = [putOK EXCEPT ![s] =
                        IF PutDataResult(s, key, value, d).err = Nil
                        THEN @ \cup {key} ELSE @]

PutData(s) ==
    \E key \in KeySet, value \in ValueSet, d \in DrawSet :
        /\ Returned(PutDataResult(s, key, value, d), d)
        /\ svc' = [svc EXCEPT ![s].data = PutDataStore(s, key, value, d)]
        /\ putOK' = [putOK EXCEPT ![s] =
                        IF PutDataResult(s, key, value, d).err = Nil
                        THEN @ \cup {key} ELSE @]

ListKeys(s) ==
    \E d \in DrawSet :
        \E r \in ListKeysResults(s, d) :
            /\ Returned(r, d)
            /\ UNCHANGED <<svc, putOK>>

SvcNext ==
    \E s \in Inst :
        \/ Connect(s)
        \/ Ping(s)
        \/ GetData(s)
        \/ PutData(s)
        \/ ListKeys(s)

SvcSpec == SvcInit /\ [][SvcNext]_vars

\* A client of two services constructed as main constructs them from the
\* first two configurations.
Inst2 == {1, 2}

PairInit ==
    /\ MainIdle
    /\ TestIdle
    /\ svc = [s \in Inst2 |-> NewMockService(LoadServiceConfig[s].Name,
                                             LoadServiceConfig[s].ResponseTime,
                                             LoadServiceConfig[s].FailureRate)]
    /\ clock = 0
    /\ last = NoCall
    /\ prev = NoCall
    /\ putOK = [s \in Inst2 |-> {}]
    /\ fired = FALSE
    /\ stored = [s \in Inst2 |-> EmptyMap]
    /\ nOps = 0

PairNext ==
    \E s \in Inst2 :
        \/ Connect(s)
        \/ Ping(s)
        \/ GetData(s)
        \/ PutData(s)
        \/ ListKeys(s)

PairSpec == PairInit /\ [][PairNext]_vars

----------------------------------------------------------------------------
\* main (src/src/main.go)

\* The connection retry limit documented in docs/RETRY_LOGIC.md.
MaxRetries == 3

\* Number of draws of the random source that are determined ahead.
Lookahead == MaxRetries

\* The draws main's random source yields: the two ends of [0, 1).
MainDraws == {0, RateScale - 1}

StartOffsets == {0, 900}
EnvVars == {LoadServiceConfig[i].TypeVar : i \in 1 .. Len(LoadServiceConfig)}
EnvSet == {[v \in EnvVars |-> ""], [v \in EnvVars |-> IF v = "DB_TYPE" THEN "postgres" ELSE ""]}

\* time.Now().Unix()
UnixNow == StartSec + ((startOff + (clock \div Millisecond)) \div 1000)

MainInit ==
    /\ svc = <<>>
    /\ clock = 0
    /\ last = NoCall
    /\ prev = NoCall
    /\ putOK = <<>>
    /\ fired = FALSE
    /\ stored = <<>>
    /\ nOps = 0
    /\ rng \in [1 .. Lookahead -> MainDraws]
    /\ startOff \in StartOffsets
    /\ env \in EnvSet
    /\ mpc = "initialize"
    /\ mi = 1
    /\ out = << "=== Integration Testing Demo ===",
                "This simulates integration with external services", "" >>
    /\ attempts = <<>>
    /\ retries = <<>>
    /\ outlook = <<>>
    /\ calls = <<>>
    /\ locals = NoLocals
    /\ TestIdle

\* rand.Float32() of the global source: the draw returned and the source after it.
Draw == Head(rng)
Drawn == \E d \in MainDraws : rng' = Tail(rng) \o <<d>>

\* Variant of the loop control that ends the process on a failed call, as
\* log.Fatalf in place of log.Printf and continue would.
Continue_fatal(i, lines) ==
    /\ locals' = NoLocals
    /\ IF SubSeq(lines[1], 1, 9) = "  (cross)"
       THEN /\ mi' = i
            /\ mpc' = "exited"
            /\ out' = out \o lines
            /\ outlook' = outlook
       ELSE IF i < Len(svc)
       THEN /\ mi' = i + 1
            /\ mpc' = "connect"
            /\ out' = out \o lines \o <<"", "Testing " \o LoadServiceConfig[i + 1].Name \o ":">>
            /\ outlook' = Append(outlook, rng')
       ELSE /\ mi' = i + 1
            /\ mpc' = "done"
            /\ out' = out \o lines \o <<"", "=== Integration Tests Complete ===">>
            /\ outlook' = outlook

\* Printed lines carry the check mark as "(check)" and the cross mark as
\* "(cross)".
\* The loop over the services moves from iteration i to the next one, or ends;
\* lines holds what iteration i still printed.
Continue(i, lines) ==
    /\ locals' = NoLocals
    /\ IF i < Len(svc)
       THEN /\ mi' = i + 1
            /\ mpc' = "connect"
            /\ out' = out \o lines \o <<"", "Testing " \o LoadServiceConfig[i + 1].Name \o ":">>
            /\ outlook' = Append(outlook, rng')
       ELSE /\ mi' = i + 1
            /\ mpc' = "done"
            /\ out' = out \o lines \o <<"", "=== Integration Tests Complete ===">>
            /\ outlook' = outlook

\* lines 144-151: one iteration of the loop that initializes the services.
MainInitialize ==
    /\ mpc = "initialize"
    /\ LET cfg == LoadServiceConfig[mi]
           type == IF env[cfg.TypeVar] = "" THEN "mock" ELSE env[cfg.TypeVar]
           line == "Initializing " \o cfg.Name \o " service (" \o type \o ")..."
       IN  /\ svc' = Append(svc, NewMockService(cfg.Name, cfg.ResponseTime, cfg.FailureRate))
           /\ putOK' = Append(putOK, {})
           /\ stored' = Append(stored, EmptyMap)
           /\ attempts' = Append(attempts, 0)
           /\ retries' = Append(retries, 0)
           /\ IF mi < Len(LoadServiceConfig)
              THEN /\ mi' = mi + 1
                   /\ out' = Append(out, line)
                   /\ UNCHANGED <<mpc, outlook, locals>>
              ELSE /\ mi' = 1
                   /\ mpc' = "connect"
                   /\ out' = out \o <<line, "", "--- Running Integration Tests ---",
                                       "", "Testing " \o LoadServiceConfig[1].Name \o ":">>
                   /\ outlook' = Append(outlook, rng)
                   /\ UNCHANGED locals
    /\ UNCHANGED <<clock, last, prev, nOps, fired, rng, startOff, env, calls>>
    /\ UNCHANGED testVars

\* lines 160-164: svc.Connect and the handling of its error.
MainConnect ==
    /\ mpc = "connect"
    /\ LET r == ConnectResult(mi, Draw)
       IN  /\ Record(r, Draw)
           /\ Drawn
           /\ attempts' = [attempts EXCEPT ![mi] = @ + 1]
           /\ IF r.err # Nil
              THEN Continue(mi, <<"  (cross) Connection failed: " \o r.err>>)
              ELSE /\ out' = Append(out, "(check) Connected to " \o svc[mi].name)
                   /\ mpc' = "ping"
                   /\ UNCHANGED <<mi, outlook, locals>>
    /\ UNCHANGED <<svc, putOK, nOps, startOff, env, retries>>
    /\ UNCHANGED testVars

\* Variant of the ping step that lacks the continue after a failed Ping.
MainPing_noContinue ==
    /\ mpc = "ping"
    /\ LET r == PingResult(mi, Draw)
       IN  /\ Record(r, Draw)
           /\ Drawn
           /\ out' = Append(out, IF r.err # Nil THEN "  (cross) Ping failed: " \o r.err
                                 ELSE "  (check) Ping successful")
           /\ mpc' = "put"
           /\ UNCHANGED <<mi, outlook, locals>>
    /\ UNCHANGED <<svc, putOK, nOps, startOff, env, attempts, retries>>
    /\ UNCHANGED testVars

\* lines 166-171: svc.Ping.
MainPing ==
    /\ mpc = "ping"
    /\ LET r == PingResult(mi, Draw)
       IN  /\ Record(r, Draw)
           /\ Drawn
           /\ IF r.err # Nil
              THEN Continue(mi, <<"  (cross) Ping failed: " \o r.err>>)
              ELSE /\ out' = Append(out, "  (check) Ping successful")
                   /\ mpc' = "put"
                   /\ UNCHANGED <<mi, outlook, locals>>
    /\ UNCHANGED <<svc, putOK, nOps, startOff, env, attempts, retries>>
    /\ UNCHANGED testVars

\* lines 173-181: testKey, testValue and svc.PutData.
MainPut ==
    /\ mpc = "put"
    /\ LET testKey == TestKey(UnixNow)
           testValue == TestValue(LoadServiceConfig[mi].Name)
           r == PutDataResult(mi, testKey, testValue, Draw)
       IN  /\ Record(r, Draw)
           /\ Drawn
           /\ svc' = [svc EXCEPT ![mi].data = PutDataStore(mi, testKey, testValue, Draw)]
           /\ putOK' = [putOK EXCEPT ![mi] = IF r.err = Nil THEN @ \cup {testKey} ELSE @]
           /\ IF r.err # Nil
              THEN Continue(mi, <<"  (cross) Put data failed: " \o r.err>>)
              ELSE /\ out' = Append(out, "  (check) Data stored successfully")
                   /\ mpc' = "get"
                   /\ locals' = [locals EXCEPT !.testKey = testKey, !.testValue = testValue]
                   /\ UNCHANGED <<mi, outlook>>
    /\ UNCHANGED <<nOps, startOff, env, attempts, retries>>
    /\ UNCHANGED testVars

\* lines 183-192: svc.GetData and the comparison with testValue.
MainGet ==
    /\ mpc = "get"
    /\ LET r == GetDataResult(mi, locals.testKey, Draw)
       IN  /\ Record(r, Draw)
           /\ Drawn
           /\ IF r.err # Nil
              THEN Continue(mi, <<"  (cross) Get data failed: " \o r.err>>)
              ELSE IF r.val # locals.testValue
              THEN Continue(mi, <<"  (cross) Data mismatch: expected " \o locals.testValue
                                   \o ", got " \o r.val>>)
              ELSE /\ out' = Append(out, "  (check) Data retrieved successfully")
                   /\ mpc' = "list"
                   /\ locals' = [locals EXCEPT !.retrieved = r.val]
                   /\ UNCHANGED <<mi, outlook>>
    /\ UNCHANGED <<svc, putOK, nOps, startOff, env, attempts, retries>>
    /\ UNCHANGED testVars

\* lines 194-199: svc.ListKeys.
MainList ==
    /\ mpc = "list"
    /\ \E r \in ListKeysResults(mi, Draw) :
           /\ Record(r, Draw)
           /\ Drawn
           /\ IF r.err # Nil
              THEN Continue(mi, <<"  (cross) List keys failed: " \o r.err>>)
              ELSE Continue(mi, <<"  (check) Listed " \o ToString(Len(r.keys)) \o " keys">>)
    /\ UNCHANGED <<svc, putOK, nOps, startOff, env, attempts, retries>>
    /\ UNCHANGED testVars

MainNext ==
    \/ MainInitialize
    \/ MainConnect
    \/ MainPing
    \/ MainPut
    \/ MainGet
    \/ MainList

MainSpec == MainInit /\ [][MainNext]_vars

\* main is a single goroutine whose calls only sleep: it keeps taking steps
\* until it returns.
MainFairSpec == MainSpec /\ WF_vars(MainNext)

----------------------------------------------------------------------------
\* MockIntegrationTest (src/tests/integration_test.go)

NewMockIntegrationTest(name, duration, failureRate) ==
    [name |-> name, duration |-> duration, failureRate |-> failureRate,
     operations |-> << "Connecting to service",
                       "Authenticating",
                       "Creating test data",
                       "Verifying data integrity",
                       "Performing read operations",
                       "Performing write operations",
                       "Testing error handling",
                       "Cleaning up test data" >>]

\* The subtests of TestStorageIntegration, TestDatabaseIntegration and
\* TestAPIIntegration, each with the scenario its function constructs.
StorageTests ==
    << [test |-> "Upload", name |-> "Storage Upload", duration |-> 500 * Millisecond, failureRate |-> 50,
        operations |-> <<"Connecting to storage service",
                        "Generating test file",
                        "Uploading file",
                        "Verifying upload",
                        "Checking file integrity">>],
       [test |-> "Download", name |-> "Storage Download", duration |-> 400 * Millisecond, failureRate |-> 30,
        operations |-> <<"Connecting to storage service",
                        "Locating file",
                        "Downloading file",
                        "Verifying download",
                        "Checking file integrity">>],
       [test |-> "List", name |-> "Storage List", duration |-> 300 * Millisecond, failureRate |-> 20,
        operations |-> <<"Connecting to storage service",
                        "Listing objects",
                        "Parsing metadata",
                        "Sorting results">>],
       [test |-> "Delete", name |-> "Storage Delete", duration |-> 200 * Millisecond, failureRate |-> 10,
        operations |-> <<"Connecting to storage service",
                        "Locating file",
                        "Deleting file",
                        "Verifying deletion">>],
       [test |-> "Metadata", name |-> "Storage Metadata", duration |-> 250 * Millisecond, failureRate |-> 20,
        operations |-> <<"Connecting to storage service",
                        "Retrieving metadata",
                        "Updating metadata",
                        "Verifying changes">>] >>

DatabaseTests ==
    << [test |-> "Connection", name |-> "Database Connection", duration |-> 300 * Millisecond, failureRate |-> 20,
        operations |-> <<"Establishing connection",
                        "Authenticating",
                        "Testing connection",
                        "Checking database version">>],
       [test |-> "Migration", name |-> "Database Migration", duration |-> 600 * Millisecond, failureRate |-> 30,
        operations |-> <<"Loading migration files",
                        "Checking current version",
                        "Applying migrations",
                        "Verifying schema">>],
       [test |-> "CRUD", name |-> "Database CRUD", duration |-> 800 * Millisecond, failureRate |-> 40,
        operations |-> <<"Creating records",
                        "Reading records",
                        "Updating records",
                        "Deleting records",
                        "Verifying operations">>],
       [test |-> "Transaction", name |-> "Database Transaction", duration |-> 400 * Millisecond, failureRate |-> 20,
        operations |-> <<"Beginning transaction",
                        "Executing operations",
                        "Testing rollback",
                        "Committing transaction">>],
       [test |-> "Performance", name |-> "Database Performance", duration |-> 1000 * Millisecond, failureRate |-> 50,
        operations |-> <<"Running query benchmarks",
                        "Testing connection pool",
                        "Measuring latency",
                        "Analyzing query plans",
                        "Generating performance report">>] >>

APITests ==
    << [test |-> "Authentication", name |-> "API Authentication", duration |-> 400 * Millisecond, failureRate |-> 30,
        operations |-> <<"Requesting auth token",
                        "Validating token",
                        "Testing token refresh",
                        "Testing token expiry">>],
       [test |-> "GET", name |-> "API GET", duration |-> 300 * Millisecond, failureRate |-> 20,
        operations |-> <<"Making GET request",
                        "Parsing response",
                        "Validating data">>],
       [test |-> "POST", name |-> "API POST", duration |-> 400 * Millisecond, failureRate |-> 30,
        operations |-> <<"Preparing payload",
                        "Making POST request",
                        "Validating response",
                        "Verifying creation">>],
       [test |-> "PUT", name |-> "API PUT", duration |-> 350 * Millisecond, failureRate |-> 20,
        operations |-> <<"Preparing update",
                        "Making PUT request",
                        "Validating response",
                        "Verifying update">>],
       [test |-> "DELETE", name |-> "API DELETE", duration |-> 300 * Millisecond, failureRate |-> 20,
        operations |-> <<"Making DELETE request",
                        "Validating response",
                        "Verifying deletion">>],
       [test |-> "RateLimit", name |-> "API Rate Limiting", duration |-> 600 * Millisecond, failureRate |-> 40,
        operations |-> <<"Testing rate limits",
                        "Checking headers",
                        "Testing backoff",
                        "Verifying throttling">>] >>

\* The scenario a subtest function constructs: NewMockIntegrationTest, then
\* the operations are replaced.
ScenarioOf(e) ==
    [NewMockIntegrationTest(e.name, e.duration, e.failureRate)
        EXCEPT !.operations = e.operations]

\* t.Logf and t.Errorf calls.  The check mark, cross mark and pass mark of
\* the messages are written "(check)", "(cross)" and "(passed)".
Logf(text) == [fn |-> "Logf", text |-> text]
Errorf(text) == [fn |-> "Errorf", text |-> text]

StartLine(m) == Logf("Starting " \o m.name \o " integration test")
StepLine(m, i) ==
    Logf("  [" \o ToString(i + 1) \o "/" \o ToString(Len(m.operations)) \o "] "
         \o m.operations[i + 1] \o "...")
\* Variant of the failure report that logs the message without failing the test.
FailLine_logf(op) == Logf("  (cross) " \o op \o " failed: simulated failure")

FailLine(op) == Errorf("  (cross) " \o op \o " failed: simulated failure")
DoneLine(op) == Logf("  (check) " \o op \o " completed")
PassLine(m) == Logf("(passed) " \o m.name \o " integration test passed")

\* Variants of the failure decision: comparison off by one either way, and
\* the -fail flag ignored.
StepFails_inclusive(m, sim, d) == sim /\ d <= m.failureRate
StepFails_short(m, sim, d) == sim /\ d + 1 < m.failureRate
StepFails_unflagged(m, sim, d) == d < m.failureRate

\* line 62: *simulateFailure && rand.Float32() < m.failureRate, d being the draw.
StepFails(m, sim, d) == sim /\ d < m.failureRate

\* Variant of the loop body that does not return after reporting the failure.
Iteration_noReturn(m, i, sim, vb, d) ==
    LET op == m.operations[i + 1]
        pre == IF vb THEN <<StepLine(m, i)>> ELSE <<>>
        post == IF vb THEN <<DoneLine(op)>> ELSE <<>>
    IN  IF StepFails(m, sim, d)
        THEN [lines |-> pre \o <<FailLine(op)>> \o post, rpc |-> "running", step |-> i + 1]
        ELSE [lines |-> pre \o post, rpc |-> "running", step |-> i + 1]

\* Variant of the loop body that reports the failure under the name of the
\* scenario's first operation.
Iteration_firstName(m, i, sim, vb, d) ==
    LET op == m.operations[i + 1]
        pre == IF vb THEN <<StepLine(m, i)>> ELSE <<>>
        post == IF vb THEN <<DoneLine(op)>> ELSE <<>>
    IN  IF StepFails(m, sim, d)
        THEN [lines |-> pre \o <<FailLine(m.operations[1])>>, rpc |-> "failed", step |-> i]
        ELSE [lines |-> pre \o post, rpc |-> "running", step |-> i + 1]

\* Variant of the loop body that logs the completion line ahead of the
\* step line.
Iteration_doneFirst(m, i, sim, vb, d) ==
    LET op == m.operations[i + 1]
        pre == IF vb THEN <<StepLine(m, i)>> ELSE <<>>
        post == IF vb THEN <<DoneLine(op)>> ELSE <<>>
    IN  IF StepFails(m, sim, d)
        THEN [lines |-> pre \o <<FailLine(op)>>, rpc |-> "failed", step |-> i]
        ELSE [lines |-> post \o pre, rpc |-> "running", step |-> i + 1]

\* Variant of the loop body that logs the completion line whether or not
\* -v is set.
Iteration_alwaysDone(m, i, sim, vb, d) ==
    LET op == m.operations[i + 1]
        pre == IF vb THEN <<StepLine(m, i)>> ELSE <<>>
        post == <<DoneLine(op)>>
    IN  IF StepFails(m, sim, d)
        THEN [lines |-> pre \o <<FailLine(op)>>, rpc |-> "failed", step |-> i]
        ELSE [lines |-> pre \o post, rpc |-> "running", step |-> i + 1]

\* Variant of the loop body that attempts a failed step again.
Iteration_retry(m, i, sim, vb, d) ==
    LET op == m.operations[i + 1]
        pre == IF vb THEN <<StepLine(m, i)>> ELSE <<>>
        post == IF vb THEN <<DoneLine(op)>> ELSE <<>>
    IN  IF StepFails(m, sim, d)
        THEN [lines |-> pre \o <<FailLine(op)>>, rpc |-> "running", step |-> i]
        ELSE [lines |-> pre \o post, rpc |-> "running", step |-> i + 1]

\* lines 53-70: iteration i of Run's loop with draw d: the lines logged, and
\* whether Run returns (failed) or goes on with the next iteration.
Iteration(m, i, sim, vb, d) ==
    LET op == m.operations[i + 1]
        pre == IF vb THEN <<StepLine(m, i)>> ELSE <<>>
        post == IF vb THEN <<DoneLine(op)>> ELSE <<>>
    IN  IF StepFails(m, sim, d)
        THEN [lines |-> pre \o <<FailLine(op)>>, rpc |-> "failed", step |-> i]
        ELSE [lines |-> pre \o post, rpc |-> "running", step |-> i + 1]

\* The draws considered: a test process draws a failure in at most
\* MaxFailedRuns of its scenario runs.
FailedRuns == Cardinality({n \in 1 .. Len(results) : results[n].outcome = "fail"})
DrawAllowed(d) == d < mock.failureRate => FailedRuns < MaxFailedRuns

\* line 59: the sleep of one iteration.
StepSleep(m) == m.duration \div Len(m.operations)

\* line 51: Run logs the start line.
RunStart ==
    /\ rpc = "ready"
    /\ rpc' = "running"
    /\ step' = 0
    /\ tlog' = Append(tlog, StartLine(mock))
    /\ UNCHANGED <<mock, slept, below>>
    /\ UNCHANGED <<flags, flags0, tfn, sub, suiteLog, results>>
    /\ UNCHANGED <<svcVars, mainVars>>

\* Variant of the iteration that decides on the failure ahead of the sleep.
RunStep_decideFirst ==
    /\ rpc = "running"
    /\ step < Len(mock.operations)
    /\ \E d \in DrawSet :
           /\ DrawAllowed(d)
           /\ LET it == Iteration(mock, step, flags.simulateFailure, flags.verbose, d)
              IN  /\ below' = IF flags.simulateFailure
                               THEN Append(below, d < mock.failureRate) ELSE below
                  /\ tlog' = tlog \o it.lines
                  /\ rpc' = it.rpc
                  /\ step' = it.step
                  /\ slept' = IF it.rpc = "failed" THEN slept ELSE slept + StepSleep(mock)
    /\ UNCHANGED mock
    /\ UNCHANGED <<flags, flags0, tfn, sub, suiteLog, results>>
    /\ UNCHANGED <<svcVars, mainVars>>

\* lines 53-70: one iteration of the loop.  The draw is made only when
\* *simulateFailure holds.
RunStep ==
    /\ rpc = "running"
    /\ step < Len(mock.operations)
    /\ slept' = slept + StepSleep(mock)
    /\ \E d \in DrawSet :
           /\ DrawAllowed(d)
           /\ LET it == Iteration(mock, step, flags.simulateFailure, flags.verbose, d)
              IN  /\ below' = IF flags.simulateFailure
                               THEN Append(below, d < mock.failureRate) ELSE below
                  /\ tlog' = tlog \o it.lines
                  /\ rpc' = it.rpc
                  /\ step' = it.step
    /\ UNCHANGED mock
    /\ UNCHANGED <<flags, flags0, tfn, sub, suiteLog, results>>
    /\ UNCHANGED <<svcVars, mainVars>>

\* line 72: the loop is over, Run logs the pass line.
RunFinish ==
    /\ rpc = "running"
    /\ step = Len(mock.operations)
    /\ tlog' = Append(tlog, PassLine(mock))
    /\ rpc' = "passed"
    /\ UNCHANGED <<mock, step, slept, below>>
    /\ UNCHANGED <<flags, flags0, tfn, sub, suiteLog, results>>
    /\ UNCHANGED <<svcVars, mainVars>>

\* A single scenario, constructed with any failure rate and run once under
\* any setting of -fail and -v.
AllTests == StorageTests \o DatabaseTests \o APITests

\* Durations of the scenario that keeps the default operations: one that the
\* number of operations divides and one that it does not.
DefaultDurations == {1000 * Millisecond, 1000 * Millisecond + 7}

RunMocks ==
    {[ScenarioOf(AllTests[n]) EXCEPT !.failureRate = r] :
        n \in 1 .. Len(AllTests), r \in RateSet}
    \cup {NewMockIntegrationTest("Default", d, r) : d \in DefaultDurations, r \in RateSet}

RunInit ==
    /\ svc = <<>>
    /\ clock = 0
    /\ last = NoCall
    /\ prev = NoCall
    /\ putOK = <<>>
    /\ fired = FALSE
    /\ stored = <<>>
    /\ nOps = 0
    /\ MainIdle
    /\ flags \in {[NoFlags EXCEPT !.simulateFailure = f, !.verbose = v] : f, v \in BOOLEAN}
    /\ flags0 = flags
    /\ mock \in RunMocks
    /\ rpc = "ready"
    /\ step = 0
    /\ tlog = <<>>
    /\ slept = 0
    /\ below = <<>>
    /\ tfn = 0
    /\ sub = 0
    /\ suiteLog = <<>>
    /\ results = <<>>

RunNext ==
    \/ RunStart
    \/ RunStep
    \/ RunFinish

RunSpec == RunInit /\ [][RunNext]_vars

----------------------------------------------------------------------------
\* The test process (src/tests/integration_test.go): go test runs the
\* top-level test functions one after another in the order of the file.

TestFunctions ==
    << [fn |-> "TestStorageIntegration", flag |-> "runStorageTests", label |-> "storage",
        skip |-> "Storage tests not enabled (use -storage flag)",
        envVar |-> "STORAGE_TYPE", default |-> "mock-s3", tests |-> StorageTests],
       [fn |-> "TestDatabaseIntegration", flag |-> "runDBTests", label |-> "database",
        skip |-> "Database tests not enabled (use -database flag)",
        envVar |-> "DB_TYPE", default |-> "mock-postgres", tests |-> DatabaseTests],
       [fn |-> "TestAPIIntegration", flag |-> "runAPITests", label |-> "API",
        skip |-> "API tests not enabled (use -api flag)",
        envVar |-> "API_TYPE", default |-> "mock-rest", tests |-> APITests],
       [fn |-> "TestIntegrationSuite", flag |-> "", label |-> "",
        skip |-> "", envVar |-> "", default |-> "", tests |-> <<>>] >>

NumCategories == 3

Result(test, outcome) == [test |-> test, outcome |-> outcome]

\* t.Failed() of the current subtest.
TFailed == \E n \in 1 .. Len(tlog) : tlog[n].fn = "Errorf"

\* t.Run(test.name, ...) starts: the subtest function constructs its scenario.
Subtest(e) ==
    /\ mock' = ScenarioOf(e)
    /\ rpc' = "ready"
    /\ step' = 0
    /\ tlog' = <<>>
    /\ slept' = 0
    /\ below' = <<>>

NoSubtest ==
    /\ mock' = NoMock
    /\ rpc' = "none"
    /\ step' = 0
    /\ tlog' = <<>>
    /\ slept' = 0
    /\ below' = <<>>

\* Variant of the category test functions that all test the storage flag.
TestCategory_storageFlag ==
    /\ tfn \in 1 .. NumCategories
    /\ sub = 0
    /\ LET T == TestFunctions[tfn]
           type == IF env[T.envVar] = "" THEN T.default ELSE env[T.envVar]
       IN  IF ~flags.runStorageTests
           THEN /\ suiteLog' = Append(suiteLog, Logf(T.skip))
                /\ results' = Append(results, Result(T.fn, "skip"))
                /\ tfn' = tfn + 1
                /\ UNCHANGED <<sub, runVars>>
           ELSE /\ suiteLog' = Append(suiteLog,
                       Logf("Running " \o T.label \o " integration tests (type: " \o type \o ")"))
                /\ sub' = 1
                /\ Subtest(T.tests[1])
                /\ UNCHANGED <<tfn, results>>
    /\ UNCHANGED <<flags, flags0>>
    /\ UNCHANGED <<svcVars, mainVars>>

\* lines 75-99 (164-187, 252-276): a category test function starts: it is
\* skipped unless its flag is set, otherwise it enters its loop of subtests.
TestCategory ==
    /\ tfn \in 1 .. NumCategories
    /\ sub = 0
    /\ LET T == TestFunctions[tfn]
           type == IF env[T.envVar] = "" THEN T.default ELSE env[T.envVar]
       IN  IF ~flags[T.flag]
           THEN /\ suiteLog' = Append(suiteLog, Logf(T.skip))
                /\ results' = Append(results, Result(T.fn, "skip"))
                /\ tfn' = tfn + 1
                /\ UNCHANGED <<sub, runVars>>
           ELSE /\ suiteLog' = Append(suiteLog,
                       Logf("Running " \o T.label \o " integration tests (type: " \o type \o ")"))
                /\ sub' = 1
                /\ Subtest(T.tests[1])
                /\ UNCHANGED <<tfn, results>>
    /\ UNCHANGED <<flags, flags0>>
    /\ UNCHANGED <<svcVars, mainVars>>

\* Variant of the subtest loop that leaves the category test function at the
\* first failed subtest.
SubtestEnd_haltOnFail ==
    /\ tfn \in 1 .. NumCategories
    /\ sub >= 1
    /\ rpc \in {"passed", "failed"}
    /\ LET T == TestFunctions[tfn]
           res == Result(T.fn \o "/" \o T.tests[sub].test, IF TFailed THEN "fail" ELSE "pass")
           done == SubSeq(results, Len(results) - (sub - 2), Len(results)) \o <<res>>
           parent == Result(T.fn, IF \E n \in 1 .. Len(done) : done[n].outcome = "fail"
                                  THEN "fail" ELSE "pass")
       IN  IF sub < Len(T.tests) /\ ~TFailed
           THEN /\ results' = Append(results, res)
                /\ sub' = sub + 1
                /\ Subtest(T.tests[sub + 1])
                /\ UNCHANGED tfn
           ELSE /\ results' = results \o <<res, parent>>
                /\ sub' = 0
                /\ tfn' = tfn + 1
                /\ NoSubtest
    /\ UNCHANGED <<flags, flags0, suiteLog>>
    /\ UNCHANGED <<svcVars, mainVars>>

\* Variant of the subtest loop whose subtests call t.Parallel: t.Run returns
\* while the subtest has not finished and the loop goes on.
SubtestEnd_parallel ==
    /\ tfn \in 1 .. NumCategories
    /\ sub >= 1
    /\ rpc \in {"ready", "running", "passed", "failed"}
    /\ LET T == TestFunctions[tfn]
           res == Result(T.fn \o "/" \o T.tests[sub].test, IF TFailed THEN "fail" ELSE "pass")
           done == SubSeq(results, Len(results) - (sub - 2), Len(results)) \o <<res>>
           parent == Result(T.fn, IF \E n \in 1 .. Len(done) : done[n].outcome = "fail"
                                  THEN "fail" ELSE "pass")
       IN  IF sub < Len(T.tests)
           THEN /\ results' = Append(results, res)
                /\ sub' = sub + 1
                /\ Subtest(T.tests[sub + 1])
                /\ UNCHANGED tfn
           ELSE /\ results' = results \o <<res, parent>>
                /\ sub' = 0
                /\ tfn' = tfn + 1
                /\ NoSubtest
    /\ UNCHANGED <<flags, flags0, suiteLog>>
    /\ UNCHANGED <<svcVars, mainVars>>

\* lines 100-104 (188-192, 277-281): a subtest returned; the loop goes on
\* with the next subtest or the category test function returns.
SubtestEnd ==
    /\ tfn \in 1 .. NumCategories
    /\ sub >= 1
    /\ rpc \in {"passed", "failed"}
    /\ LET T == TestFunctions[tfn]
           res == Result(T.fn \o "/" \o T.tests[sub].test, IF TFailed THEN "fail" ELSE "pass")
           done == SubSeq(results, Len(results) - (sub - 2), Len(results)) \o <<res>>
           parent == Result(T.fn, IF \E n \in 1 .. Len(done) : done[n].outcome = "fail"
                                  THEN "fail" ELSE "pass")
       IN  IF sub < Len(T.tests)
           THEN /\ results' = Append(results, res)
                /\ sub' = sub + 1
                /\ Subtest(T.tests[sub + 1])
                /\ UNCHANGED tfn
           ELSE /\ results' = results \o <<res, parent>>
                /\ sub' = 0
                /\ tfn' = tfn + 1
                /\ NoSubtest
    /\ UNCHANGED <<flags, flags0, suiteLog>>
    /\ UNCHANGED <<svcVars, mainVars>>

\* Variant of TestIntegrationSuite whose test of the flags is a disjunction.
TestIntegrationSuite_anyUnset ==
    /\ tfn = NumCategories + 1
    /\ LET none == ~flags.runStorageTests \/ ~flags.runDBTests \/ ~flags.runAPITests
           f == IF none
                THEN [flags EXCEPT !.runStorageTests = TRUE, !.runDBTests = TRUE,
                                   !.runAPITests = TRUE]
                ELSE flags
       IN  /\ flags' = f
           /\ suiteLog' = suiteLog
                \o (IF none
                    THEN <<Logf("No specific integration tests requested, running full suite")>>
                    ELSE <<>>)
                \o << Logf("Integration Test Configuration:"),
                      Logf("  Storage Tests: " \o ToString(f.runStorageTests)),
                      Logf("  Database Tests: " \o ToString(f.runDBTests)),
                      Logf("  API Tests: " \o ToString(f.runAPITests)),
                      Logf("  Simulate Failures: " \o ToString(f.simulateFailure)),
                      Logf("  Verbose: " \o ToString(f.verbose)) >>
    /\ results' = Append(results, Result("TestIntegrationSuite", "pass"))
    /\ tfn' = tfn + 1
    /\ UNCHANGED <<flags0, sub, runVars>>
    /\ UNCHANGED <<svcVars, mainVars>>

\* lines 348-363: TestIntegrationSuite.
TestIntegrationSuite ==
    /\ tfn = NumCategories + 1
    /\ LET none == ~flags.runStorageTests /\ ~flags.runDBTests /\ ~flags.runAPITests
           f == IF none
                THEN [flags EXCEPT !.runStorageTests = TRUE, !.runDBTests = TRUE,
                                   !.runAPITests = TRUE]
                ELSE flags
       IN  /\ flags' = f
           /\ suiteLog' = suiteLog
                \o (IF none
                    THEN <<Logf("No specific integration tests requested, running full suite")>>
                    ELSE <<>>)
                \o << Logf("Integration Test Configuration:"),
                      Logf("  Storage Tests: " \o ToString(f.runStorageTests)),
                      Logf("  Database Tests: " \o ToString(f.runDBTests)),
                      Logf("  API Tests: " \o ToString(f.runAPITests)),
                      Logf("  Simulate Failures: " \o ToString(f.simulateFailure)),
                      Logf("  Verbose: " \o ToString(f.verbose)) >>
    /\ results' = Append(results, Result("TestIntegrationSuite", "pass"))
    /\ tfn' = tfn + 1
    /\ UNCHANGED <<flags0, sub, runVars>>
    /\ UNCHANGED <<svcVars, mainVars>>

TestInit ==
    /\ svc = <<>>
    /\ clock = 0
    /\ last = NoCall
    /\ prev = NoCall
    /\ putOK = <<>>
    /\ fired = FALSE
    /\ stored = <<>>
    /\ nOps = 0
    /\ rng = <<>>
    /\ startOff = 0
    /\ env \in EnvSet
    /\ mpc = "idle"
    /\ mi = 0
    /\ out = <<>>
    /\ attempts = <<>>
    /\ retries = <<>>
    /\ outlook = <<>>
    /\ calls = <<>>
    /\ locals = NoLocals
    /\ flags \in [DOMAIN NoFlags -> BOOLEAN]
    /\ flags0 = flags
    /\ mock = NoMock
    /\ rpc = "none"
    /\ step = 0
    /\ tlog = <<>>
    /\ slept = 0
    /\ below = <<>>
    /\ tfn = 1
    /\ sub = 0
    /\ suiteLog = <<>>
    /\ results = <<>>

TestNext ==
    \/ TestCategory
    \/ RunStart
    \/ RunStep
    \/ RunFinish
    \/ SubtestEnd
    \/ TestIntegrationSuite

TestSpec == TestInit /\ [][TestNext]_vars

----------------------------------------------------------------------------
\* Properties of the service operations (checked under SvcSpec).

Elems(seq) == {seq[i] : i \in 1 .. Len(seq)}

\* C1: on a service whose failure rate is 0, a PutData(k, v) followed
\* immediately by GetData(k) returns exactly v and no error, whatever the store
\* held before.
C1_PutThenGet ==
    \A s \in Inst :
        (/\ svc[s].failureRate = 0
         /\ prev.op = "PutData" /\ prev.s = s
         /\ last.op = "GetData" /\ last.s = s
         /\ last.key = prev.key)
        => (last.err = Nil /\ last.val = prev.value)

\* A PutData that overwrote a key of a non-empty store, then GetData of it.
C1_Witness ==
    /\ svc[1].failureRate = 0
    /\ nOps = 3
    /\ prev.op = "PutData" /\ last.op = "GetData" /\ last.key = prev.key
    /\ last.val = prev.value
    /\ \E v \in ValueSet : v # prev.value

\* C2: a ListKeys that succeeds returns exactly the keys successfully put so
\* far, each once, also when a key was put more than once; with failure rate 0
\* it always succeeds, so after PutData(k1), PutData(k2) on a fresh service it
\* returns exactly {k1, k2}.
C2_ListKeysExact ==
    \A s \in Inst :
        (last.op = "ListKeys" /\ last.s = s) =>
            /\ svc[s].failureRate = 0 => last.err = Nil
            /\ last.err = Nil =>
                  /\ Elems(last.keys) = putOK[s]
                  /\ Len(last.keys) = Cardinality(putOK[s])

\* Two different keys put on a fresh service, then listed.
C2_Witness ==
    /\ svc[1].failureRate = 0
    /\ nOps = 3
    /\ last.op = "ListKeys" /\ last.err = Nil
    /\ Len(last.keys) = 2
    /\ last.keys[1] # last.keys[2]

\* C7 as stated: on a service whose failure rate is 0 every call succeeds,
\* for every key argument and every store state.
C7_AllSucceed ==
    \A s \in Inst :
        (svc[s].failureRate = 0 /\ last.op # "none" /\ last.s = s)
        => last.err = Nil

\* C7 amended: on a service whose failure rate is 0, Connect, Ping, PutData
\* and ListKeys always succeed and GetData succeeds for every key present in
\* the store; GetData of an absent key returns the not-found error naming
\* the key.
C7_SucceedUnlessAbsent ==
    \A s \in Inst :
        (svc[s].failureRate = 0 /\ last.op # "none" /\ last.s = s)
        => IF last.op = "GetData" /\ last.key \notin DOMAIN svc[s].data
           THEN last.err = "key " \o last.key \o " not found"
           ELSE last.err = Nil

\* A GetData of a present key succeeded on a service that never fails.
C7_Witness ==
    /\ svc[1].failureRate = 0
    /\ last.op = "GetData" /\ last.key \in DOMAIN svc[1].data
    /\ last.err = Nil
    /\ prev.op \in {"Connect", "Ping", "ListKeys"} /\ prev.err = Nil

\* C9: on a service whose failure rate is 1 every call of Connect, Ping,
\* GetData, PutData and ListKeys returns an error.
C9_AllFail ==
    \A s \in Inst :
        (svc[s].failureRate = RateScale /\ last.op # "none" /\ last.s = s)
        => last.err # Nil

\* A PutData failed on a service that always fails and stored nothing.
C9_Witness ==
    /\ svc[1].failureRate = RateScale
    /\ last.op = "PutData" /\ last.err # Nil
    /\ prev.op = "GetData" /\ prev.err # Nil
    /\ DOMAIN svc[1].data = {}

----------------------------------------------------------------------------
\* Properties of the connection handling in main (checked under MainSpec).

\* main has finished connecting to service i, one way or the other.
ConnectionOver(i) ==
    /\ mpc \notin {"idle", "initialize"}
    /\ i \in 1 .. Len(outlook)
    /\ i < mi \/ (i = mi /\ mpc # "connect")

Connected(i) == \E n \in 1 .. Len(out) : out[n] = "(check) Connected to " \o svc[i].name

\* The n-th connect attempt on service i, counted from the start of its test,
\* fails.
AttemptFails(i, n) == shouldFail(svc[i], outlook[i][n])

\* C3: with a retry limit of 3, a connect that fails twice and then succeeds
\* is reported connected after exactly 3 attempts and exactly 2 retry
\* notices, and no attempt follows the successful one.
C3_RetryThenConnected ==
    \A i \in 1 .. Len(LoadServiceConfig) :
        (/\ ConnectionOver(i)
         /\ AttemptFails(i, 1) /\ AttemptFails(i, 2) /\ ~AttemptFails(i, 3))
        => (/\ Connected(i)
            /\ attempts[i] = MaxRetries
            /\ retries[i] = MaxRetries - 1)

\* C4: with a retry limit of 3, a connect that always fails is attempted
\* exactly 3 times and then reported as a connection failure that names the
\* service.
C4_RetriesExhausted ==
    \A i \in 1 .. Len(LoadServiceConfig) :
        (/\ ConnectionOver(i)
         /\ \A n \in 1 .. MaxRetries : AttemptFails(i, n))
        => (/\ ~Connected(i)
            /\ attempts[i] = MaxRetries
            /\ \E n \in 1 .. Len(out) :
                   out[n] = "  (cross) Connection failed: failed to connect to " \o svc[i].name)

----------------------------------------------------------------------------
\* Properties of a scenario run (checked under RunSpec).

Errors == {n \in 1 .. Len(tlog) : tlog[n].fn = "Errorf"}
Logged(line) == \E n \in 1 .. Len(tlog) : tlog[n] = line
StepNames == {mock.operations[j] : j \in 1 .. Len(mock.operations)}

\* C6: with -fail set and a scenario failure rate of 0, no step of a run is
\* ever reported failed, and the run passes with all of its steps completed.
C6_ZeroRatePasses ==
    (rpc # "none" /\ flags.simulateFailure /\ mock.failureRate = 0)
    => (/\ rpc # "failed"
        /\ Errors = {}
        /\ \A j \in 1 .. Len(below) : ~below[j]
        /\ rpc = "passed" =>
              /\ step = Len(mock.operations)
              /\ Len(below) = Len(mock.operations)
              /\ tlog[Len(tlog)] = PassLine(mock))

\* A run with -fail set and rate 0 passed after drawing for every step.
C6_Witness ==
    /\ flags.simulateFailure /\ mock.failureRate = 0
    /\ rpc = "passed"
    /\ Len(below) = Len(mock.operations)
    /\ Len(mock.operations) >= 5

\* C8: with -fail set and a scenario failure rate of 1, a run fails at its
\* first step: that step is the one reported failed, no completion marker
\* and no pass line is logged, and no later step is attempted.
C8_FullRateFailsFirst ==
    (rpc # "none" /\ flags.simulateFailure /\ mock.failureRate = RateScale)
    => (/\ step = 0
        /\ rpc \in {"ready", "running", "failed"}
        /\ rpc \in {"ready", "running"} => (below = <<>> /\ Errors = {})
        /\ rpc = "failed" =>
              /\ below = <<TRUE>>
              /\ slept = StepSleep(mock)
              /\ tlog[Len(tlog)] = FailLine(mock.operations[1])
              /\ Cardinality(Errors) = 1
        /\ \A op \in StepNames : ~Logged(DoneLine(op))
        /\ ~Logged(PassLine(mock)))

\* A verbose run with rate 1 failed at its first step.
C8_Witness ==
    /\ flags.simulateFailure /\ flags.verbose /\ mock.failureRate = RateScale
    /\ rpc = "failed"
    /\ Logged(StepLine(mock, 0))
    /\ Logged(FailLine(mock.operations[1]))

\* The first draw of the run that fell below the failure rate.
FirstBelow == CHOOSE k \in 1 .. Len(below) : below[k] /\ \A j \in 1 .. k - 1 : ~below[j]

\* C10: in a failing run the step reported failed is the first one whose
\* draw fell below the failure rate; every earlier step was attempted and
\* completed, in verbose mode with its completion marker logged before the
\* failure marker; no step after the failed one is attempted.
C10_FirstBelowReported ==
    Errors # {} =>
        /\ \E k \in 1 .. Len(below) : below[k]
        /\ rpc = "failed"
        /\ Cardinality(Errors) = 1
        /\ Errors = {Len(tlog)}
        /\ tlog[Len(tlog)] = FailLine(mock.operations[FirstBelow])
        /\ step = FirstBelow - 1
        /\ Len(below) = FirstBelow
        /\ slept = FirstBelow * StepSleep(mock)
        /\ flags.verbose =>
              \A j \in 1 .. FirstBelow - 1 :
                  \E n \in 1 .. Len(tlog) - 1 : tlog[n] = DoneLine(mock.operations[j])

\* A verbose run failed at its third step or later.
C10_Witness ==
    /\ flags.verbose
    /\ rpc = "failed"
    /\ step >= 2
    /\ Logged(DoneLine(mock.operations[step]))
    /\ Logged(FailLine(mock.operations[step + 1]))

----------------------------------------------------------------------------
\* Properties of the test process (checked under TestSpec).

\* The process has run all of its test functions.
ProcessOver == tfn = Len(TestFunctions) + 1

AllScenarios ==
    UNION {{TestFunctions[c].fn \o "/" \o TestFunctions[c].tests[n].test :
               n \in 1 .. Len(TestFunctions[c].tests)} : c \in 1 .. NumCategories}

\* The scenarios the process has run.
Executed == {results[n].test : n \in 1 .. Len(results)} \cap AllScenarios

CategoryFlags(f) == {f.runStorageTests, f.runDBTests, f.runAPITests}

\* C5: a test process started with all three category flags false runs the
\* same scenarios as one started with all three true: all 16 of them.
C5_NoFlagsRunsAll ==
    (ProcessOver /\ Cardinality(CategoryFlags(flags0)) = 1)
    => (Executed = AllScenarios /\ Cardinality(Executed) = 16)

----------------------------------------------------------------------------
\* Properties of the categories (checked under TestSpec).

\* The name go test gives subtest n of category c.
SubName(c, n) == TestFunctions[c].fn \o "/" \o TestFunctions[c].tests[n].test

SubNames(c) == {SubName(c, n) : n \in 1 .. Len(TestFunctions[c].tests)}

\* The recorded outcomes of the subtests of category c, in completion order.
CategoryResults(c) == SelectSeq(results, LAMBDA r : r.test \in SubNames(c))

\* C11: within an enabled category every scenario is started exactly once, in
\* the order of the list, whatever the outcomes of the scenarios before it,
\* and each scenario's own pass or fail outcome is recorded.
C11_SiblingsAllRun ==
    \A c \in 1 .. NumCategories :
        LET T == TestFunctions[c]
            done == CategoryResults(c)
        IN  /\ \A n \in 1 .. Len(done) :
                  /\ done[n].test = SubName(c, n)
                  /\ done[n].outcome \in {"pass", "fail"}
            /\ (tfn = c /\ sub >= 1) =>
                  /\ Len(done) = sub - 1
                  /\ mock = ScenarioOf(T.tests[sub])
            /\ (tfn = c /\ sub = 0) => Len(done) = 0
            /\ tfn < c => Len(done) = 0
            /\ (tfn > c /\ flags0[T.flag]) => Len(done) = Len(T.tests)

\* The storage category is over: its first scenario failed, a later one
\* failed too and the last one passed.
C11_Witness ==
    /\ tfn > 1
    /\ Len(CategoryResults(1)) = 5
    /\ CategoryResults(1)[1].outcome = "fail"
    /\ CategoryResults(1)[2].outcome = "pass"
    /\ CategoryResults(1)[4].outcome = "fail"
    /\ CategoryResults(1)[5].outcome = "pass"

\* The recorded outcome of the top-level test function c, if it has returned.
FunctionResults(c) == SelectSeq(results, LAMBDA r : r.test = TestFunctions[c].fn)

\* go test reports the run failed: some top-level test function failed.
RunReportedFailed ==
    \E c \in 1 .. Len(TestFunctions) :
        \E n \in 1 .. Len(FunctionResults(c)) : FunctionResults(c)[n].outcome = "fail"

\* C12: a scenario that reports a step failure is recorded failed, and so is
\* its category test and, with it, the whole run; a scenario that passes
\* later never resets a recorded failure.
C12_FailureNeverMasked ==
    /\ [](rpc = "failed" => TFailed)
    /\ [][(rpc = "failed" /\ results' # results) =>
            results'[Len(results) + 1] = Result(SubName(tfn, sub), "fail")]_vars
    /\ [][\A n \in 1 .. Len(results) :
            Len(results') >= n /\ results'[n] = results[n]]_vars
    /\ [](\A c \in 1 .. NumCategories :
            (/\ tfn > c
             /\ \E n \in 1 .. Len(CategoryResults(c)) : CategoryResults(c)[n].outcome = "fail")
            => (/\ FunctionResults(c) = <<Result(TestFunctions[c].fn, "fail")>>
                /\ RunReportedFailed))

\* The run is over; the first storage scenario failed, every later scenario
\* of every category passed, and the storage test is recorded failed.
C12_Witness ==
    /\ ProcessOver
    /\ flags0.runStorageTests /\ flags0.runAPITests
    /\ CategoryResults(1)[1].outcome = "fail"
    /\ \A n \in 2 .. 5 : CategoryResults(1)[n].outcome = "pass"
    /\ \A n \in 1 .. 6 : CategoryResults(3)[n].outcome = "pass"
    /\ FunctionResults(1) = <<Result("TestStorageIntegration", "fail")>>
    /\ RunReportedFailed

----------------------------------------------------------------------------
\* Further properties of a scenario run (checked under RunSpec).

\* C13: without -fail no failure is injected: whatever the scenario's failure
\* rate, 1 included, no draw is made, no step is reported failed and the run
\* passes with all of its steps completed.
C13_NoInjectionUnlessFlagged ==
    (rpc # "none" /\ ~flags.simulateFailure)
    => (/\ rpc # "failed"
        /\ Errors = {}
        /\ below = <<>>
        /\ rpc = "passed" =>
              /\ step = Len(mock.operations)
              /\ tlog[Len(tlog)] = PassLine(mock))

\* A scenario with failure rate 1 passed all of its steps without -fail.
C13_Witness ==
    /\ ~flags.simulateFailure
    /\ mock.failureRate = RateScale
    /\ rpc = "passed"
    /\ step = Len(mock.operations)

----------------------------------------------------------------------------
\* Further properties of the categories (checked under TestSpec).

\* The scenario lists of the storage, database and api categories.
ExpectedTests ==
    << <<"Upload", "Download", "List", "Delete", "Metadata">>,
       <<"Connection", "Migration", "CRUD", "Transaction", "Performance">>,
       <<"Authentication", "GET", "POST", "PUT", "DELETE", "RateLimit">> >>

\* C14: a category whose flag is set when its test function runs executes
\* exactly its fixed list of scenarios, in order; a category whose flag is
\* not set then is skipped and none of its scenarios is started.
C14_FixedListOrSkip ==
    /\ tfn \in 1 .. NumCategories + 1 => flags = flags0
    /\ \A c \in 1 .. NumCategories :
        LET T == TestFunctions[c]
            done == CategoryResults(c)
        IN  /\ (tfn = c /\ sub >= 1) =>
                  /\ flags[T.flag]
                  /\ sub <= Len(ExpectedTests[c])
                  /\ T.tests[sub].test = ExpectedTests[c][sub]
                  /\ mock = ScenarioOf(T.tests[sub])
            /\ (tfn > c /\ flags0[T.flag]) =>
                  /\ [n \in 1 .. Len(done) |-> done[n].test]
                       = [n \in 1 .. Len(ExpectedTests[c]) |-> T.fn \o "/" \o ExpectedTests[c][n]]
                  /\ Len(FunctionResults(c)) = 1
                  /\ FunctionResults(c)[1].outcome \in {"pass", "fail"}
            /\ (tfn > c /\ ~flags0[T.flag]) =>
                  /\ done = <<>>
                  /\ FunctionResults(c) = <<Result(T.fn, "skip")>>

\* The storage category was skipped, the database category ran its five
\* scenarios and the api category is running its last one.
C14_Witness ==
    /\ ~flags0.runStorageTests /\ flags0.runDBTests /\ flags0.runAPITests
    /\ tfn = 3 /\ sub = 6
    /\ mock.name = "API Rate Limiting"
    /\ Len(CategoryResults(1)) = 0
    /\ Len(CategoryResults(2)) = 5

----------------------------------------------------------------------------
\* The log of one scenario run (checked under RunSpec).

\* The log of a verbose run of m in which every step completes: the start
\* line, a step line and a completion line per operation, the pass line.
VerbosePassLog(m) ==
    LET n == Len(m.operations)
    IN  [k \in 1 .. 2 * n + 2 |->
            IF k = 1 THEN StartLine(m)
            ELSE IF k = 2 * n + 2 THEN PassLine(m)
            ELSE IF k % 2 = 0 THEN StepLine(m, (k \div 2) - 1)
            ELSE DoneLine(m.operations[(k - 1) \div 2])]

\* The operations of the "Storage Upload" scenario.
UploadSteps ==
    <<"Connecting to storage service", "Generating test file", "Uploading file",
      "Verifying upload", "Checking file integrity">>

StepLines(m) == {StepLine(m, i) : i \in 0 .. Len(m.operations) - 1}
DoneLines(m) == {DoneLine(m.operations[i]) : i \in 1 .. Len(m.operations)}
FailLines(m) == {FailLine(m.operations[i]) : i \in 1 .. Len(m.operations)}

\* C16 as stated: without -v a run logs nothing but the start line and the
\* pass line; completion lines and failure lines appear in verbose mode only.
C16_PerStepLinesVerboseOnly ==
    ~flags.verbose =>
        \A k \in 1 .. Len(tlog) : tlog[k] \in {StartLine(mock), PassLine(mock)}

\* C16: step lines and completion lines are logged in verbose mode only;
\* the failure line is reported in either mode.  Without -v a run logs the
\* start line and then either the pass line or the failure line of the
\* failing step.
C16_FailureLineAlways ==
    /\ (\E k \in 1 .. Len(tlog) : tlog[k] \in StepLines(mock) \cup DoneLines(mock))
          => flags.verbose
    /\ rpc = "failed" =>
          /\ tlog[Len(tlog)] = FailLine(mock.operations[step + 1])
          /\ Cardinality({k \in 1 .. Len(tlog) : tlog[k] \in FailLines(mock)}) = 1
    /\ (rpc = "failed" /\ ~flags.verbose) =>
          tlog = <<StartLine(mock), FailLine(mock.operations[step + 1])>>
    /\ (rpc = "passed" /\ ~flags.verbose) =>
          tlog = <<StartLine(mock), PassLine(mock)>>
    /\ (rpc = "running" /\ ~flags.verbose) => tlog = <<StartLine(mock)>>

\* A run without -v failed at its third step.
C16_Witness ==
    /\ ~flags.verbose
    /\ rpc = "failed"
    /\ step = 2
    /\ Len(tlog) = 2

----------------------------------------------------------------------------
\* Further properties of the service (checked under SvcSpec).

\* The errors of GetData.
TransientGet(s) == "failed to get data from " \o svc[s].name
NotFound(key) == "key " \o key \o " not found"

\* C17: GetData fails with the transient error whenever its draw fell below
\* the rate, whether or not the key exists; otherwise, for an absent key it
\* fails with the not-found error naming the key; otherwise it returns the
\* value of the latest successful PutData under that key.
C17_GetDataOrder ==
    last.op = "GetData" =>
        IF fired
        THEN last.err = TransientGet(last.s) /\ last.val = ""
        ELSE IF last.key \notin DOMAIN stored[last.s]
        THEN last.err = NotFound(last.key) /\ last.val = ""
        ELSE last.err = Nil /\ last.val = stored[last.s][last.key]

\* GetData of a stored key whose draw fell below the rate.
C17_Witness ==
    /\ last.op = "GetData"
    /\ fired
    /\ last.key \in DOMAIN stored[last.s]
    /\ last.err = TransientGet(last.s)

\* A GetData of key on instance s that returns the not-found error.
GetNotFound(s, key) ==
    /\ GetData(s)
    /\ last'.key = key
    /\ last'.err = NotFound(key)

\* The keys absent from the store of s.
Absent(s) == KeySet \ DOMAIN svc[s].data

\* C18 as stated: for a key absent from the store, GetData can return the
\* not-found error under every failure rate, the rate 1 included.
C18_NotFoundAlwaysPossible ==
    nOps < MaxOps =>
        \A s \in Inst : \A key \in Absent(s) : ENABLED GetNotFound(s, key)

\* C18: for a key absent from the store, GetData can return the not-found
\* error exactly when the failure rate is below 1; at rate 1 the draw always
\* falls below the rate and the call fails with the transient error.
C18_NotFoundUnlessRateOne ==
    /\ nOps < MaxOps =>
          \A s \in Inst : \A key \in Absent(s) :
              (ENABLED GetNotFound(s, key)) <=> svc[s].failureRate < RateScale
    /\ (last.op = "GetData" /\ svc[last.s].failureRate = RateScale) =>
          last.err = TransientGet(last.s)

\* GetData returned not-found on a service with a nonzero failure rate.
C18_Witness ==
    /\ last.op = "GetData"
    /\ last.err = NotFound(last.key)
    /\ svc[last.s].failureRate > 0
    /\ ~fired

\* C19: only PutData mutates a service: a step that changes an instance is
\* a PutData on it that returned nil and wrote its key; Connect, Ping,
\* GetData and ListKeys, failing or not, leave the store unchanged, and no
\* call changes the name, latency or failure rate.
C19_OnlyPutDataMutates ==
    /\ [][\A s \in Inst :
            /\ svc'[s].name = svc[s].name
            /\ svc'[s].responseTime = svc[s].responseTime
            /\ svc'[s].failureRate = svc[s].failureRate
            /\ (nOps' = nOps + 1 /\ last'.op # "PutData") => svc'[s].data = svc[s].data
            /\ svc'[s].data # svc[s].data =>
                  /\ last'.op = "PutData" /\ last'.s = s /\ last'.err = Nil
                  /\ svc'[s].data = MapPut(svc[s].data, last'.key, last'.value)]_vars
    /\ [](\A s \in Inst : svc[s].data = stored[s])

\* A failed ListKeys right after a successful PutData, the store still
\* holding what was put.
C19_Witness ==
    /\ last.op = "ListKeys" /\ last.err # Nil
    /\ prev.op = "PutData" /\ prev.err = Nil
    /\ svc[last.s].data = MapPut(EmptyMap, prev.key, prev.value)

----------------------------------------------------------------------------
\* The errors of the three programs, side by side: a process is the client
\* of one service, main, or one scenario run.

AllInit == SvcInit \/ MainInit \/ RunInit

AllNext ==
    \/ mpc = "idle" /\ rpc = "none" /\ SvcNext
    \/ MainNext
    \/ RunNext

AllSpec == AllInit /\ [][AllNext]_vars

\* strings.Contains
Contains(str, part) ==
    \E i \in 0 .. Len(str) - Len(part) : SubSeq(str, i + 1, i + Len(part)) = part

\* C20: every error of Connect, Ping, GetData, PutData and ListKeys names
\* the service; main prints every error a call returned to it; a failed
\* scenario step is reported through t.Errorf under the step's name.
C20_ErrorsNameOrigin ==
    /\ (last.op # "none" /\ last.err # Nil) => Contains(last.err, svc[last.s].name)
    /\ (mpc # "idle" /\ last.err # Nil) =>
          \E k \in 1 .. Len(out) : Contains(out[k], last.err)
    /\ rpc = "failed" =>
          /\ tlog[Len(tlog)].fn = "Errorf"
          /\ Contains(tlog[Len(tlog)].text, mock.operations[step + 1])

----------------------------------------------------------------------------
\* The states of one scenario run (checked under RunSpec).

\* The run is over.
RunOver == rpc \in {"passed", "failed"}

\* The lines of the log that are the pass line, and those that are failure lines.
PassLinesLogged == {k \in 1 .. Len(tlog) : tlog[k] = PassLine(mock)}
FailLinesLogged == {k \in 1 .. Len(tlog) : tlog[k] \in FailLines(mock)}

\* C21: a run goes from ready to running at step 0; the step index only
\* moves up by one; a step is attempted once; passed is reached from the
\* last step only; passed and failed are terminal; a run never has both a
\* pass line and a failure line.
C21_RunStateMachine ==
    /\ [][/\ rpc = "ready" => (rpc' \in {"ready", "running"} /\ step' = 0)
          /\ rpc = "running" =>
                \/ rpc' = "running" /\ step' = step + 1
                \/ rpc' = "failed" /\ step' = step /\ step < Len(mock.operations)
                \/ rpc' = "passed" /\ step' = step /\ step = Len(mock.operations)
          /\ RunOver => (rpc' = rpc /\ step' = step /\ tlog' = tlog)
          /\ mock' = mock]_vars
    /\ [](/\ step \in 0 .. Len(mock.operations)
          /\ flags.simulateFailure =>
                Len(below) = step + (IF rpc = "failed" THEN 1 ELSE 0)
          /\ slept = (step + (IF rpc = "failed" THEN 1 ELSE 0)) * StepSleep(mock)
          /\ rpc = "passed" <=> PassLinesLogged # {}
          /\ rpc = "failed" <=> FailLinesLogged # {}
          /\ Cardinality(PassLinesLogged) + Cardinality(FailLinesLogged) <= 1)

\* A run that failed at its second step after completing the first.
C21_Witness ==
    /\ rpc = "failed"
    /\ step = 1
    /\ below = <<FALSE, TRUE>>
    /\ Cardinality(FailLinesLogged) = 1

----------------------------------------------------------------------------
\* The effect of PutData (checked under SvcSpec).

TransientPut(s) == "failed to put data to " \o svc[s].name

\* C22: a PutData that fails with the transient error leaves the store as
\* it was; a PutData that returns nil maps its key to its value and leaves
\* every other key as it was.
C22_PutDataEffect ==
    [][(nOps' = nOps + 1 /\ last'.op = "PutData") =>
          LET s == last'.s
              key == last'.key
          IN  /\ last'.err \in {Nil, TransientPut(s)}
              /\ last'.err = TransientPut(s) <=> fired'
              /\ last'.err = TransientPut(s) => svc' = svc
              /\ last'.err = Nil =>
                    /\ DOMAIN svc'[s].data = DOMAIN svc[s].data \cup {key}
                    /\ svc'[s].data[key] = last'.value
                    /\ \A k \in DOMAIN svc[s].data \ {key} :
                          svc'[s].data[k] = svc[s].data[k]]_vars

\* A PutData that failed on a key already stored with another value.
C22_Witness ==
    /\ last.op = "PutData" /\ last.err = TransientPut(last.s)
    /\ prev.op = "PutData" /\ prev.err = Nil
    /\ prev.key = last.key /\ prev.value # last.value
    /\ svc[last.s].data[last.key] = prev.value

----------------------------------------------------------------------------
\* The calls main makes (checked under MainSpec).

\* The order of the calls in the body of main's loop.
OpOrder == <<"Connect", "Ping", "PutData", "GetData", "ListKeys">>

\* The calls main made on service i, in order.
CallsOn(i) == SelectSeq(calls, LAMBDA c : c.s = i)

\* The loop iteration of service i is over.
TestedOver(i) == mpc = "done" \/ (mpc \notin {"idle", "initialize"} /\ mi > i)

\* C23: on each service main calls Connect, Ping, PutData, GetData and
\* ListKeys in that order, each at most once; a call is made only after all
\* earlier calls on the service returned nil, and none after the first error.
C23_CallOrder ==
    /\ \A a, b \in 1 .. Len(calls) : a < b => calls[a].s <= calls[b].s
    /\ \A i \in 1 .. Len(LoadServiceConfig) :
          LET cs == CallsOn(i)
          IN  /\ Len(cs) <= Len(OpOrder)
              /\ \A n \in 1 .. Len(cs) : cs[n].op = OpOrder[n]
              /\ \A n \in 1 .. Len(cs) - 1 : cs[n].err = Nil
              /\ TestedOver(i) =>
                    /\ Len(cs) >= 1
                    /\ Len(cs) < Len(OpOrder) => cs[Len(cs)].err # Nil

\* main is done: Ping failed on the first service, the second went through
\* all five calls, PutData failed on the third.
C23_Witness ==
    /\ mpc = "done"
    /\ Len(CallsOn(1)) = 2 /\ CallsOn(1)[2].err # Nil
    /\ Len(CallsOn(2)) = 5
    /\ Len(CallsOn(3)) = 3 /\ CallsOn(3)[3].err # Nil

\* The "Testing <name>:" header lines printed so far, in order.
TestingLines ==
    SelectSeq(out, LAMBDA l :
        \E i \in 1 .. Len(LoadServiceConfig) : l = "Testing " \o LoadServiceConfig[i].Name \o ":")

\* C24: no error ends the process: main reaches the completion line, and by
\* then has tested each of the three configured services once, in
\* configuration order, whatever the earlier services returned.
C24_AllTestedAndDone ==
    /\ <>(mpc = "done")
    /\ [](mpc \in {"initialize", "connect", "ping", "put", "get", "list", "done"})
    /\ [](mpc = "done" =>
            /\ out[Len(out)] = "=== Integration Tests Complete ==="
            /\ TestingLines = [i \in 1 .. Len(LoadServiceConfig) |->
                                  "Testing " \o LoadServiceConfig[i].Name \o ":"]
            /\ [i \in 1 .. Len(svc) |-> svc[i].name]
                  = <<"S3-like Storage", "Database", "External API">>
            /\ \A i \in 1 .. Len(svc) :
                  /\ Len(CallsOn(i)) >= 1
                  /\ CallsOn(i)[1].op = "Connect")

\* main is done although Connect failed on every service.
C24_Witness ==
    /\ mpc = "done"
    /\ \A i \in 1 .. Len(LoadServiceConfig) :
          Len(CallsOn(i)) = 1 /\ CallsOn(i)[1].err # Nil
    /\ out[Len(out)] = "=== Integration Tests Complete ==="

----------------------------------------------------------------------------
\* Failure injection (checked under AllSpec).

\* The simulated-failure error of each operation.
TransientErr(op, s) ==
    CASE op = "Connect" -> "failed to connect to " \o svc[s].name
      [] op = "Ping" -> svc[s].name \o " is not responding"
      [] op = "GetData" -> TransientGet(s)
      [] op = "PutData" -> TransientPut(s)
      [] op = "ListKeys" -> "failed to list keys from " \o svc[s].name

\* A call of op on s by the free client.
OpCall(op, s) ==
    CASE op = "Connect" -> Connect(s)
      [] op = "Ping" -> Ping(s)
      [] op = "GetData" -> GetData(s)
      [] op = "PutData" -> PutData(s)
      [] op = "ListKeys" -> ListKeys(s)

\* The failure rate lies strictly between 0 and 1.
Between(rate) == 0 < rate /\ rate < RateScale

\* C25: failure injection keeps no memory.  With a failure rate strictly
\* between 0 and 1, whatever came before, the next call of every service
\* operation can fail and can succeed, and so can the next step of a run
\* with failure simulation on; a call fails with the simulated error
\* exactly when its own draw fell below the rate, and a run has failed
\* exactly when its latest draw did.
C25_NoMemory ==
    /\ (mpc = "idle" /\ rpc = "none" /\ nOps < MaxOps) =>
          \A s \in Inst : Between(svc[s].failureRate) =>
              \A op \in Elems(OpOrder) :
                  /\ ENABLED (OpCall(op, s) /\ last'.err = TransientErr(op, s))
                  /\ ENABLED (OpCall(op, s) /\ last'.err # TransientErr(op, s))
    /\ (rpc = "running" /\ step < Len(mock.operations) /\ flags.simulateFailure
            /\ Between(mock.failureRate)) =>
          /\ ENABLED (RunStep /\ rpc' = "failed")
          /\ ENABLED (RunStep /\ rpc' = "running")
    /\ last.op # "none" => (fired <=> last.err = TransientErr(last.op, last.s))
    /\ (rpc \in {"running", "passed", "failed"} /\ flags.simulateFailure) =>
          /\ \A n \in 1 .. Len(below) - 1 : ~below[n]
          /\ rpc = "failed" <=> (below # <<>> /\ below[Len(below)])

\* Two calls in a row failed on a service whose rate is strictly between 0
\* and 1, and a further call is still to come.
C25_Witness ==
    /\ mpc = "idle" /\ rpc = "none"
    /\ nOps = 2
    /\ Between(svc[last.s].failureRate)
    /\ last.err = TransientErr(last.op, last.s)
    /\ prev.err = TransientErr(prev.op, prev.s)

----------------------------------------------------------------------------
\* Two instances (checked under PairSpec).

\* C26: each instance has its own store, empty at construction; a call on
\* one instance leaves the other instance as it was, and what GetData and
\* ListKeys return on an instance is decided by the PutData calls on that
\* instance alone, so a key put into one is not found in the other.
C26_OwnStore ==
    /\ [][\A s \in Inst2 : (nOps' = nOps + 1 /\ last'.s # s) => svc'[s] = svc[s]]_vars
    /\ [](/\ nOps = 0 => \A s \in Inst2 : svc[s].data = EmptyMap
          /\ \A s \in Inst2 : svc[s].data = stored[s]
          /\ (last.op = "GetData" /\ ~fired) =>
                IF last.key \in DOMAIN stored[last.s]
                THEN last.err = Nil /\ last.val = stored[last.s][last.key]
                ELSE last.err = NotFound(last.key)
          /\ (last.op = "ListKeys" /\ last.err = Nil) =>
                Elems(last.keys) = DOMAIN stored[last.s])

\* A key stored in the first instance is not found in the second.
C26_Witness ==
    /\ last.op = "GetData" /\ last.s = 2 /\ last.err = NotFound(last.key)
    /\ prev.op = "PutData" /\ prev.s = 1 /\ prev.err = Nil
    /\ prev.key = last.key
    /\ last.key \in DOMAIN svc[1].data

----------------------------------------------------------------------------
\* Sequential execution (checked under TestSpec).

\* The scenarios started so far and those whose outcome is recorded.
RECURSIVE StartedBefore(_)
StartedBefore(c) ==
    IF c = 0 THEN 0
    ELSE StartedBefore(c - 1)
         + (IF flags0[TestFunctions[c].flag] THEN Len(TestFunctions[c].tests) ELSE 0)

StartedCount ==
    IF tfn <= NumCategories THEN StartedBefore(tfn - 1) + sub
    ELSE StartedBefore(NumCategories)

RECURSIVE FinishedBefore(_)
FinishedBefore(c) ==
    IF c = 0 THEN 0 ELSE FinishedBefore(c - 1) + Len(CategoryResults(c))

FinishedCount == FinishedBefore(NumCategories)

\* A scenario has been started and its outcome is not yet recorded.
InProgress == rpc \in {"ready", "running", "passed", "failed"}

\* C27: execution is sequential.  At most one scenario is in progress; a
\* scenario is started only when the one before it has passed or failed,
\* a step only when the one before it completed, and a test function only
\* when the one before it returned with no scenario in progress.
C27_Sequential ==
    /\ [][/\ (rpc' = "ready" /\ (sub' # sub \/ tfn' # tfn)) =>
                rpc \in {"none", "passed", "failed"}
          /\ tfn' # tfn =>
                /\ tfn' = tfn + 1
                /\ sub' = 0
                /\ rpc' = "none"
                /\ rpc \in {"none", "passed", "failed"}
                /\ results'[Len(results')].test = TestFunctions[tfn].fn
          /\ (rpc = "running" /\ rpc' = "running") => step' = step + 1]_vars
    /\ [](/\ StartedCount - FinishedCount = (IF InProgress THEN 1 ELSE 0)
          /\ InProgress <=> (tfn \in 1 .. NumCategories /\ sub >= 1)
          /\ InProgress => mock = ScenarioOf(TestFunctions[tfn].tests[sub])
          /\ (flags.verbose /\ InProgress) =>
                Cardinality({k \in 1 .. Len(tlog) : tlog[k] \in StepLines(mock)})
                  = Cardinality({k \in 1 .. Len(tlog) :
                                    tlog[k] \in DoneLines(mock) \cup FailLines(mock)}))

\* The second category is at its third scenario, mid-run, after the first
\* category ran all of its scenarios.
C27_Witness ==
    /\ tfn = 2 /\ sub = 3
    /\ rpc = "running" /\ step = 2
    /\ StartedCount = 8
    /\ FinishedCount = 7

----------------------------------------------------------------------------
\* The time a run sleeps (checked under RunSpec).

\* C28: each step sleeps duration / len(operations), an integer division of
\* nanoseconds, ahead of its failure decision: a run at step index i has
\* slept i times that, a passing run len(operations) times that, which is
\* within the duration, and a run that failed at its i-th step i times that.
C28_SleepPerStep ==
    rpc \in {"running", "passed", "failed"} =>
        LET n == Len(mock.operations)
            per == mock.duration \div n
        IN  /\ per * n <= mock.duration
            /\ mock.duration - per * n < n
            /\ rpc = "running" => slept = step * per
            /\ rpc = "passed" => (slept = n * per /\ slept <= mock.duration)
            /\ rpc = "failed" =>
                  /\ tlog[Len(tlog)] = FailLine(mock.operations[step + 1])
                  /\ slept = (step + 1) * per

\* A run whose duration its eight operations do not divide failed at the
\* third step.
C28_Witness ==
    /\ rpc = "failed"
    /\ step = 2
    /\ mock.duration % Len(mock.operations) # 0
    /\ slept = 3 * (mock.duration \div Len(mock.operations))

----------------------------------------------------------------------------
\* The data main reads back (checked under MainSpec).

\* C29: in main, a GetData that returns nil returns the value the PutData
\* just before it stored under the same key, so "Data mismatch" is never
\* printed; a ListKeys that returns nil returns that one key.
C29_ReadBack ==
    /\ \A k \in 1 .. Len(out) : ~Contains(out[k], "Data mismatch")
    /\ (mpc # "idle" /\ last.op = "GetData" /\ last.err = Nil) =>
          /\ prev.op = "PutData" /\ prev.err = Nil /\ prev.s = last.s
          /\ prev.key = last.key
          /\ last.val = prev.value
          /\ last.val = TestValue(LoadServiceConfig[last.s].Name)
    /\ (mpc # "idle" /\ last.op = "ListKeys" /\ last.err = Nil) =>
          /\ Len(last.keys) = 1
          /\ DOMAIN svc[last.s].data = Elems(last.keys)
          /\ \E k \in 1 .. Len(out) : out[k] = "  (check) Listed 1 keys"

\* ListKeys returned nil on the third service after the first service went
\* through all five calls.
C29_Witness ==
    /\ last.op = "ListKeys" /\ last.err = Nil /\ last.s = 3
    /\ Len(CallsOn(1)) = 5
    /\ CallsOn(1)[5].err = Nil

----------------------------------------------------------------------------
\* The keys of a store (checked under SvcSpec).

\* C30: the key set of a store only grows: no call removes a key, and once
\* a PutData of a key returned nil, no GetData of that key returns the
\* not-found error and every ListKeys that returns nil contains the key.
C30_KeysOnlyGrow ==
    /\ [][\A s \in Inst : DOMAIN svc[s].data \subseteq DOMAIN svc'[s].data]_vars
    /\ [](/\ \A s \in Inst : putOK[s] \subseteq DOMAIN svc[s].data
          /\ (last.op = "GetData" /\ last.key \in putOK[last.s]) =>
                last.err # NotFound(last.key)
          /\ (last.op = "ListKeys" /\ last.err = Nil) =>
                putOK[last.s] \subseteq Elems(last.keys))

\* The same stored key was read twice in a row.
C30_Witness ==
    /\ last.op = "GetData" /\ last.err = Nil
    /\ prev.op = "GetData" /\ prev.err = Nil
    /\ prev.key = last.key
    /\ last.key \in putOK[last.s]

----------------------------------------------------------------------------
\* The flags (checked under TestSpec).

\* The three category flags of f.
Categories(f) == <<f.runStorageTests, f.runDBTests, f.runAPITests>>

\* C31: TestIntegrationSuite sets the three category flags to true when all
\* three are false and leaves them as they are when any one is set; it
\* never changes the failure-simulation flag or the verbose flag.
C31_FallbackFrame ==
    /\ [][(tfn = NumCategories + 1 /\ tfn' = tfn + 1) =>
            /\ Categories(flags) = <<FALSE, FALSE, FALSE>> =>
                  Categories(flags') = <<TRUE, TRUE, TRUE>>
            /\ Categories(flags) # <<FALSE, FALSE, FALSE>> =>
                  Categories(flags') = Categories(flags)
            /\ flags'.simulateFailure = flags.simulateFailure
            /\ flags'.verbose = flags.verbose]_vars
    /\ [](tfn > NumCategories + 1 =>
            /\ flags # flags0 <=> Categories(flags0) = <<FALSE, FALSE, FALSE>>
            /\ flags.simulateFailure = flags0.simulateFailure
            /\ flags.verbose = flags0.verbose)

\* TestIntegrationSuite has run with no category flag given and with -fail
\* and -v given: the three category flags are set, -fail and -v are as given.
C31_Witness ==
    /\ tfn = NumCategories + 2
    /\ Categories(flags0) = <<FALSE, FALSE, FALSE>>
    /\ Categories(flags) = <<TRUE, TRUE, TRUE>>
    /\ flags0.simulateFailure /\ flags.simulateFailure
    /\ flags0.verbose /\ flags.verbose

====
